---- MODULE Spec2Model ----
(***************************************************************************)
(* scripts/inference.py: the command-line driver that probes a video,      *)
(* cuts the video and the audio into 5 second segments, runs the lipsync   *)
(* pipeline on each segment and concatenates the processed segments.       *)
(*                                                                         *)
(* Durations and times are fixed-point numbers: one second is Unit ticks,  *)
(* so that fractional durations (float(video_info["duration"])) and the    *)
(* float operators //, % and min are computed exactly. Python computes     *)
(* float // and % from an exact fmod, and d - 5*k is exact for             *)
(* 5*k < d <= 5*(k+1), so the fixed-point results are those of the floats. *)
(***************************************************************************)
EXTENDS Integers, Sequences, FiniteSets

\* ---------------------------------------------------------------- bounds
Unit == 2          \* ticks per second
MaxDuration == 11  \* longest probed duration, in seconds

\* ------------------------------------------------------- program constants
segment_duration == 5
DefaultInferenceSteps == 20
DefaultGuidanceScale == 1   \* the float 1.0
DefaultSeed == 1247

SegTicks == segment_duration * Unit

RequiredFlags ==
  {"--inference_ckpt_path", "--video_path", "--audio_path", "--video_out_path"}

OptionalFlags == {"--inference_steps", "--guidance_scale", "--seed"}

\* Values an optional flag can carry on the command line (<<>>: flag omitted).
OptionalValues(flag) ==
  CASE flag = "--inference_steps" -> {<<>>, <<50>>}
    [] flag = "--guidance_scale" -> {<<>>, <<2>>}
    [] flag = "--seed" -> {<<>>, <<-1>>}

CommandLines ==
  { [required |-> r, steps |-> s, scale |-> g, seed |-> d] :
      r \in SUBSET RequiredFlags,
      s \in OptionalValues("--inference_steps"),
      g \in OptionalValues("--guidance_scale"),
      d \in OptionalValues("--seed") }

\* config.model.cross_attention_dim as the loaded configuration may set it.
CrossAttentionDims == {384, 512, 768}

\* Durations ffprobe may report, in ticks.
Durations == 0..(MaxDuration * Unit)

VARIABLES
  argv,                 \* the command line of the process
  pc,                   \* position of the script
  error,                \* exception that ended the run, "none" otherwise
  args,                 \* parser.parse_args()
  cross_attention_dim,  \* config.model.cross_attention_dim
  dtype,                \* torch.float16 or torch.float32
  video_duration,       \* in ticks
  total_segments,
  i,                    \* loop variable of the current for loop
  cut_videos,
  cut_audios,
  outputs,
  calls,                \* external calls made so far, in order
  files                 \* paths written so far

vars == <<argv, pc, error, args, cross_attention_dim, dtype, video_duration,
          total_segments, i, cut_videos, cut_audios, outputs, calls, files>>

\* ------------------------------------------------------------------ paths
\* f"{part}" and f"output_{i+1}.mp4" print the integer in decimal, which is
\* injective: a path keeps the integer beside its fixed text.
SegmentVideoPath(part) == [stem |-> "assets/", part |-> part, ext |-> ".mp4"]
SegmentAudioPath(part) == [stem |-> "assets/", part |-> part, ext |-> ".mp3"]
OutputPath(part) == [stem |-> "output_", part |-> part, ext |-> ".mp4"]
\* video_out_path.replace(".mp4", "_mask.mp4")
MaskPath(path) == [path EXCEPT !.ext = "_mask.mp4"]
UserPath(flag) == [stem |-> flag, part |-> 0, ext |-> ""]

\* --------------------------------------------------------- pure arithmetic
Min(a, b) == IF a <= b THEN a ELSE b

\* Mutant: the remainder of the division is dropped.
TotalSegments_NoRemainder(duration) ==
  IF duration <= SegTicks THEN 1 ELSE duration \div SegTicks

\* lines 117-122
TotalSegments(duration) ==
  IF duration <= SegTicks
    THEN 1
    ELSE LET q == duration \div SegTicks
         IN  IF duration % SegTicks # 0 THEN q + 1 ELSE q

\* lines 131, 153
StartTime(k) == k * SegTicks
\* Mutant: the end of the window is not clamped to the duration.
EndTime_NoMin(k, duration) == (k + 1) * SegTicks

\* lines 132-134, 154-156
EndTime(k, duration) == Min((k + 1) * SegTicks, duration)

NoArgs == [parsed |-> FALSE]

Init ==
  /\ argv \in CommandLines
  /\ pc = "parse_args"
  /\ error = "none"
  /\ args = NoArgs
  /\ cross_attention_dim = 0
  /\ dtype = "unset"
  /\ video_duration = 0
  /\ total_segments = 0
  /\ i = 0
  /\ cut_videos = <<>>
  /\ cut_audios = <<>>
  /\ outputs = <<>>
  /\ calls = <<>>
  /\ files = {}

\* Mutant: --video_out_path is declared without required=True.
MissingRequired_OutPathOptional(cmdline) ==
  (RequiredFlags \ {"--video_out_path"}) \ cmdline.required

\* lines 242-245: the required flags the command line does not carry
MissingRequired(cmdline) == RequiredFlags \ cmdline.required

\* lines 240-249
\* argparse: a missing required flag prints usage and exits with status 2;
\* an omitted optional flag takes its default.
ParseArgs ==
  /\ pc = "parse_args"
  /\ IF MissingRequired(argv) = {}
       THEN /\ args' = [parsed |-> TRUE,
                        inference_ckpt_path |-> UserPath("--inference_ckpt_path"),
                        video_path |-> UserPath("--video_path"),
                        audio_path |-> UserPath("--audio_path"),
                        video_out_path |-> UserPath("--video_out_path"),
                        inference_steps |->
                          IF argv.steps = <<>> THEN DefaultInferenceSteps
                                               ELSE argv.steps[1],
                        guidance_scale |->
                          IF argv.scale = <<>> THEN DefaultGuidanceScale
                                               ELSE argv.scale[1],
                        seed |-> IF argv.seed = <<>> THEN DefaultSeed
                                                     ELSE argv.seed[1]]
            /\ pc' = "load_config"
            /\ error' = error
       ELSE /\ args' = args
            /\ pc' = "done"
            /\ error' = "SystemExit"
  /\ UNCHANGED <<argv, cross_attention_dim, dtype, video_duration,
                 total_segments, i, cut_videos, cut_audios, outputs, calls,
                 files>>

\* line 251: OmegaConf.load(args.unet_config_path)
LoadConfig ==
  /\ pc = "load_config"
  /\ \E dim \in CrossAttentionDims : cross_attention_dim' = dim
  /\ calls' = Append(calls, [op |-> "load_config", ok |-> TRUE])
  /\ pc' = "main"
  /\ UNCHANGED <<argv, error, args, dtype, video_duration, total_segments, i,
                 cut_videos, cut_audios, outputs, files>>

\* lines 104-109
EnterMain ==
  /\ pc = "main"
  /\ \E is_fp16_supported \in BOOLEAN :
       dtype' = IF is_fp16_supported THEN "float16" ELSE "float32"
  /\ pc' = "probe"
  /\ UNCHANGED <<argv, error, args, cross_attention_dim, video_duration,
                 total_segments, i, cut_videos, cut_audios, outputs, calls,
                 files>>

ProbeCall(ok) == [op |-> "probe", ok |-> ok, input |-> args.video_path]

\* lines 111-126
Probe ==
  /\ pc = "probe"
  /\ \E duration \in Durations :
       /\ video_duration' = duration
       /\ total_segments' = TotalSegments(duration)
  /\ calls' = Append(calls, ProbeCall(TRUE))
  /\ cut_videos' = <<>>
  /\ i' = 0
  /\ pc' = "cut_video"
  /\ UNCHANGED <<argv, error, args, cross_attention_dim, dtype, cut_audios,
                 outputs, files>>

\* lines 30-47: the ffmpeg invocation cut_video makes
cut_video(input_path, output_path, start_time, end_time) ==
  [op |-> "cut_video", input |-> input_path, output |-> output_path,
   ss |-> start_time, t |-> end_time - start_time]

\* lines 49-63: the ffmpeg invocation cut_audio makes
cut_audio(input_path, output_path, start_time, end_time) ==
  [op |-> "cut_audio", input |-> input_path, output |-> output_path,
   ss |-> start_time, t |-> end_time - start_time]

WithOk(call, ok) == [f \in DOMAIN call \cup {"ok"} |->
                       IF f = "ok" THEN ok ELSE call[f]]

\* Mutant: the part number is the zero-based loop index.
CutVideoCall_ZeroBased(ok) ==
  WithOk(cut_video(args.video_path, SegmentVideoPath(i), StartTime(i),
                   EndTime(i, video_duration)), ok)

\* lines 129-144
CutVideoCall(ok) ==
  WithOk(cut_video(args.video_path, SegmentVideoPath(i + 1), StartTime(i),
                   EndTime(i, video_duration)), ok)

\* lines 128-146: one iteration of the first loop
CutVideo ==
  /\ pc = "cut_video"
  /\ i < total_segments
  /\ calls' = Append(calls, CutVideoCall(TRUE))
  /\ files' = files \cup {CutVideoCall(TRUE).output}
  /\ cut_videos' = Append(cut_videos, CutVideoCall(TRUE).output)
  /\ i' = i + 1
  /\ UNCHANGED <<argv, pc, error, args, cross_attention_dim, dtype,
                 video_duration, total_segments, cut_audios, outputs>>

\* lines 128, 148: range(total_segments) is exhausted
CutVideosDone ==
  /\ pc = "cut_video"
  /\ i >= total_segments
  /\ cut_audios' = <<>>
  /\ i' = 0
  /\ pc' = "cut_audio"
  /\ UNCHANGED <<argv, error, args, cross_attention_dim, dtype,
                 video_duration, total_segments, cut_videos, outputs, calls,
                 files>>

\* Mutant: the audio window is not clamped to the video duration.
CutAudioCall_Unclamped(ok) ==
  WithOk(cut_audio(args.audio_path, SegmentAudioPath(i + 1), StartTime(i),
                   (i + 1) * SegTicks), ok)

\* lines 151-166
CutAudioCall(ok) ==
  WithOk(cut_audio(args.audio_path, SegmentAudioPath(i + 1), StartTime(i),
                   EndTime(i, video_duration)), ok)

\* lines 150-168: one iteration of the second loop
CutAudio ==
  /\ pc = "cut_audio"
  /\ i < total_segments
  /\ calls' = Append(calls, CutAudioCall(TRUE))
  /\ files' = files \cup {CutAudioCall(TRUE).output}
  /\ cut_audios' = Append(cut_audios, CutAudioCall(TRUE).output)
  /\ i' = i + 1
  /\ UNCHANGED <<argv, pc, error, args, cross_attention_dim, dtype,
                 video_duration, total_segments, cut_videos, outputs>>

\* line 150: range(total_segments) is exhausted
CutAudiosDone ==
  /\ pc = "cut_audio"
  /\ i >= total_segments
  /\ pc' = "load_scheduler"
  /\ UNCHANGED <<argv, error, args, cross_attention_dim, dtype,
                 video_duration, total_segments, i, cut_videos, cut_audios,
                 outputs, calls, files>>

SchedulerCall(ok) == [op |-> "load_scheduler", ok |-> ok]

\* line 170
LoadScheduler ==
  /\ pc = "load_scheduler"
  /\ calls' = Append(calls, SchedulerCall(TRUE))
  /\ pc' = "check_dim"
  /\ UNCHANGED <<argv, error, args, cross_attention_dim, dtype,
                 video_duration, total_segments, i, cut_videos, cut_audios,
                 outputs, files>>

\* Mutant: an unrecognised dimension falls back to the tiny model.
WhisperModelPath_Fallback(dim) ==
  IF dim = 768 THEN "checkpoints/whisper/small.pt"
               ELSE "checkpoints/whisper/tiny.pt"

\* lines 172-177
WhisperModelPath(dim) ==
  CASE dim = 768 -> "checkpoints/whisper/small.pt"
    [] dim = 384 -> "checkpoints/whisper/tiny.pt"
    [] OTHER -> "NotImplementedError"

\* lines 172-177
CheckDim ==
  /\ pc = "check_dim"
  /\ IF WhisperModelPath(cross_attention_dim) = "NotImplementedError"
       THEN /\ error' = "NotImplementedError"
            /\ pc' = "done"
       ELSE /\ error' = error
            /\ pc' = "load_models"
  /\ UNCHANGED <<argv, args, cross_attention_dim, dtype, video_duration,
                 total_segments, i, cut_videos, cut_audios, outputs, calls,
                 files>>

\* lines 179-209: audio encoder, vae, unet, pipeline object, seed
LoadModelsCall(ok) ==
  [op |-> "load_models", ok |-> ok,
   whisper_model_path |-> WhisperModelPath(cross_attention_dim),
   checkpoint |-> args.inference_ckpt_path,
   dtype |-> dtype,
   seeding |-> IF args.seed # -1 THEN "set_seed" ELSE "torch.seed"]

\* lines 179-211
LoadModels ==
  /\ pc = "load_models"
  /\ calls' = Append(calls, LoadModelsCall(TRUE))
  /\ outputs' = <<>>
  /\ i' = 0
  /\ pc' = "pipeline"
  /\ UNCHANGED <<argv, error, args, cross_attention_dim, dtype,
                 video_duration, total_segments, cut_videos, cut_audios,
                 files>>

\* line 213: zip stops at the shorter list
ZipLen == Min(Len(cut_videos), Len(cut_audios))

\* lines 216-229
PipelineCall(ok) ==
  [op |-> "pipeline", ok |-> ok,
   video_path |-> cut_videos[i + 1],
   audio_path |-> cut_audios[i + 1],
   video_out_path |-> OutputPath(i + 1),
   video_mask_path |-> MaskPath(OutputPath(i + 1)),
   num_inference_steps |-> args.inference_steps,
   guidance_scale |-> args.guidance_scale,
   weight_dtype |-> dtype]

\* lines 213-231: one iteration of the third loop
Pipeline ==
  /\ pc = "pipeline"
  /\ i < ZipLen
  /\ calls' = Append(calls, PipelineCall(TRUE))
  /\ files' = files \cup {PipelineCall(TRUE).video_out_path,
                          PipelineCall(TRUE).video_mask_path}
  /\ outputs' = Append(outputs, PipelineCall(TRUE).video_out_path)
  /\ i' = i + 1
  /\ UNCHANGED <<argv, pc, error, args, cross_attention_dim, dtype,
                 video_duration, total_segments, cut_videos, cut_audios>>

\* Mutant: the loop over the segments may end one segment early.
PipelineDone_Early ==
  /\ pc = "pipeline"
  /\ i >= ZipLen - 1
  /\ pc' = "concat"
  /\ UNCHANGED <<argv, error, args, cross_attention_dim, dtype,
                 video_duration, total_segments, i, cut_videos, cut_audios,
                 outputs, calls, files>>

\* lines 213, 233: the zip is exhausted
PipelineDone ==
  /\ pc = "pipeline"
  /\ i >= ZipLen
  /\ pc' = "concat"
  /\ UNCHANGED <<argv, error, args, cross_attention_dim, dtype,
                 video_duration, total_segments, i, cut_videos, cut_audios,
                 outputs, calls, files>>

\* A fixed string of the command line.
Str(s) == [stem |-> s, part |-> 0, ext |-> ""]

\* lines 66-67: "[i:v:0][i:a:0]" for i in range(len) and "concat=n=len:v=1:a=1"
FilterArgs(video_paths) ==
  [pads |-> [k \in 1..Len(video_paths) |-> k - 1],
   n |-> Len(video_paths), v |-> 1, a |-> 1]

\* lines 71-72
RECURSIVE InputArgs(_)
InputArgs(video_paths) ==
  IF video_paths = <<>>
    THEN <<>>
    ELSE <<Str("-i"), Head(video_paths)>> \o InputArgs(Tail(video_paths))

\* Mutant: the last clip is not given as an input.
concatenate_videos_DropLast(video_paths, output_path) ==
  <<Str("ffmpeg"), Str("-y")>>
    \o InputArgs(SubSeq(video_paths, 1, Len(video_paths) - 1))
    \o <<Str("-filter_complex"), FilterArgs(video_paths), Str("-hide_banner"),
         Str("-loglevel"), Str("error"), Str("-map"), Str("[v]"), Str("-map"),
         Str("[a]"), Str("-c:v"), Str("libx264"), Str("-preset"),
         Str("ultrafast"), Str("-crf"), Str("28"), Str("-r"), Str("30"),
         Str("-y"), output_path>>

\* lines 65-100: the command concatenate_videos runs
concatenate_videos(video_paths, output_path) ==
  <<Str("ffmpeg"), Str("-y")>> \o InputArgs(video_paths)
    \o <<Str("-filter_complex"), FilterArgs(video_paths), Str("-hide_banner"),
         Str("-loglevel"), Str("error"), Str("-map"), Str("[v]"), Str("-map"),
         Str("[a]"), Str("-c:v"), Str("libx264"), Str("-preset"),
         Str("ultrafast"), Str("-crf"), Str("28"), Str("-r"), Str("30"),
         Str("-y"), output_path>>

ConcatCall(ok) ==
  [op |-> "concat", ok |-> ok,
   cmd |-> concatenate_videos(outputs, args.video_out_path),
   output |-> args.video_out_path]

\* lines 235-237
Concat ==
  /\ pc = "concat"
  /\ calls' = Append(calls, ConcatCall(TRUE))
  /\ files' = files \cup {ConcatCall(TRUE).output}
  /\ pc' = "done"
  /\ UNCHANGED <<argv, error, args, cross_attention_dim, dtype,
                 video_duration, total_segments, i, cut_videos, cut_audios,
                 outputs>>

Next ==
  \/ ParseArgs
  \/ LoadConfig
  \/ EnterMain
  \/ Probe
  \/ CutVideo
  \/ CutVideosDone
  \/ CutAudio
  \/ CutAudiosDone
  \/ LoadScheduler
  \/ CheckDim
  \/ LoadModels
  \/ Pipeline
  \/ PipelineDone
  \/ Concat

Spec == Init /\ [][Next]_vars

\* ------------------------------------------------ failing external steps
\* No call of the script is inside a try block: an exception raised by an
\* external step leaves main and ends the process. The step may have written
\* some of its output files before it failed.
Raise(call, exception, written) ==
  /\ calls' = Append(calls, call)
  /\ \E w \in SUBSET written : files' = files \cup w
  /\ error' = exception
  /\ pc' = "done"
  /\ UNCHANGED <<argv, args, cross_attention_dim, dtype, video_duration,
                 total_segments, i, cut_videos, cut_audios, outputs>>

\* line 251
FailLoadConfig ==
  /\ pc = "load_config"
  /\ Raise([op |-> "load_config", ok |-> FALSE], "OSError", {})

\* lines 111-113
FailProbe ==
  /\ pc = "probe"
  /\ Raise(ProbeCall(FALSE), "ffmpeg.Error", {})

\* lines 136-144
FailCutVideo ==
  /\ pc = "cut_video"
  /\ i < total_segments
  /\ Raise(CutVideoCall(FALSE), "ffmpeg.Error", {CutVideoCall(FALSE).output})

\* lines 158-166
FailCutAudio ==
  /\ pc = "cut_audio"
  /\ i < total_segments
  /\ Raise(CutAudioCall(FALSE), "ffmpeg.Error", {CutAudioCall(FALSE).output})

\* line 170
FailLoadScheduler ==
  /\ pc = "load_scheduler"
  /\ Raise(SchedulerCall(FALSE), "OSError", {})

\* lines 179-209
FailLoadModels ==
  /\ pc = "load_models"
  /\ Raise(LoadModelsCall(FALSE), "RuntimeError", {})

\* Mutant: the exception of a pipeline invocation is caught and the loop
\* continues with the next segment.
FailPipeline_Skipped ==
  /\ pc = "pipeline"
  /\ i < ZipLen
  /\ calls' = Append(calls, PipelineCall(FALSE))
  /\ i' = i + 1
  /\ UNCHANGED <<argv, pc, error, args, cross_attention_dim, dtype,
                 video_duration, total_segments, cut_videos, cut_audios,
                 outputs, files>>

\* lines 218-229
FailPipeline ==
  /\ pc = "pipeline"
  /\ i < ZipLen
  /\ Raise(PipelineCall(FALSE), "RuntimeError",
           {PipelineCall(FALSE).video_out_path,
            PipelineCall(FALSE).video_mask_path})

\* line 98: subprocess.run(ffmpeg_cmd, check=True)
FailConcat ==
  /\ pc = "concat"
  /\ Raise(ConcatCall(FALSE), "CalledProcessError", {ConcatCall(FALSE).output})

NextFail ==
  \/ Next
  \/ FailLoadConfig
  \/ FailProbe
  \/ FailCutVideo
  \/ FailCutAudio
  \/ FailLoadScheduler
  \/ FailLoadModels
  \/ FailPipeline
  \/ FailConcat

\* The script with external steps that may fail.
SpecFail == Init /\ [][NextFail]_vars

ExternalErrors == {"OSError", "ffmpeg.Error", "RuntimeError", "CalledProcessError"}

TypeOK ==
  /\ argv \in CommandLines
  /\ pc \in {"parse_args", "load_config", "main", "probe", "cut_video",
             "cut_audio", "load_scheduler", "check_dim", "load_models",
             "pipeline", "concat", "done"}
  /\ error \in {"none", "SystemExit", "NotImplementedError"} \cup ExternalErrors
  /\ cross_attention_dim \in CrossAttentionDims \cup {0}
  /\ dtype \in {"unset", "float16", "float32"}
  /\ video_duration \in Durations
  /\ total_segments \in Nat
  /\ i \in Nat
  /\ Len(cut_videos) <= total_segments
  /\ Len(cut_audios) <= total_segments
  /\ Len(outputs) <= total_segments

\* ------------------------------------------------------------ observations
Cuts == {"cut_video", "cut_audio"}

CallsOf(op) == SelectSeq(calls, LAMBDA c : c.op = op)

VideoCuts == CallsOf("cut_video")
AudioCuts == CallsOf("cut_audio")
PipelineCalls == CallsOf("pipeline")
ConcatCalls == CallsOf("concat")

\* The probe has returned a duration.
Probed == \E k \in 1..Len(calls) : calls[k].op = "probe" /\ calls[k].ok

\* The run ended without any exception.
Completed == pc = "done" /\ error = "none"

\* ceil(a / b) of the real quotient, for a >= 0 and b > 0.
Ceil(a, b) == CHOOSE n \in 0..a : n * b >= a /\ (n = 0 \/ (n - 1) * b < a)

\* The paths that follow a "-i" of a command line, in order.
RECURSIVE InputsOf(_)
InputsOf(cmd) ==
  IF Len(cmd) < 2
    THEN <<>>
    ELSE IF Head(cmd) = Str("-i")
           THEN <<cmd[2]>> \o InputsOf(Tail(Tail(cmd)))
           ELSE InputsOf(Tail(cmd))

\* The filter graph that follows "-filter_complex".
FilterOf(cmd) ==
  LET k == CHOOSE j \in 1..Len(cmd) : cmd[j] = Str("-filter_complex")
  IN  cmd[k + 1]

\* ------------------------------------------------------------------ C1
\* C1 as stated: for every duration d >= 0, total_segments = ceil(d / 5), and
\* total_segments = 1 whenever d <= 5 (d = 0 included), so total_segments >= 1.
C1_AsStated ==
  Probed =>
    /\ total_segments = Ceil(video_duration, SegTicks)
    /\ (video_duration <= SegTicks => total_segments = 1)
    /\ total_segments >= 1

\* C1 amended: total_segments = ceil(d / 5) for every duration d > 0, and
\* total_segments = 1 whenever d <= 5, d = 0 included (where ceil(d / 5) is
\* 0); total_segments is always >= 1.
C1_TotalSegments ==
  Probed =>
    /\ (video_duration > 0 => total_segments = Ceil(video_duration, SegTicks))
    /\ (video_duration <= SegTicks => total_segments = 1)
    /\ total_segments >= 1

C1_Witness ==
  Probed /\ video_duration = 0 /\ total_segments = 1 /\ Len(cut_videos) = 1

\* ------------------------------------------------------------------ C9
\* C9: for every duration d > 0 the windows of the video cuts, start 5*i and
\* end min(5*(i+1), d), tile [0, d): the first starts at 0, each starts where
\* the previous one ends, the last ends at d, every one but the last has
\* length 5, and every one has a length > 0 and <= 5.
C9_WindowsTile ==
  (Probed /\ video_duration > 0) =>
    LET v == VideoCuts
    IN  /\ \A k \in 1..Len(v) :
             /\ v[k].ss = (k - 1) * SegTicks
             /\ k = 1 => v[k].ss = 0
             /\ k > 1 => v[k].ss = v[k - 1].ss + v[k - 1].t
             /\ v[k].t > 0
             /\ v[k].t <= SegTicks
             /\ k < total_segments => v[k].t = SegTicks
             /\ v[k].ss + v[k].t <= video_duration
        /\ pc # "cut_video" =>
             /\ Len(v) = total_segments
             /\ v[Len(v)].ss + v[Len(v)].t = video_duration

C9_Witness ==
  /\ Completed
  /\ total_segments = 3
  /\ video_duration % SegTicks # 0
  /\ Len(VideoCuts) = 3

\* ------------------------------------------------------------------ C2
\* C2: in a run where no step fails, every one of the total_segments segments
\* is passed to the pipeline exactly once, in ascending order, and
\* concatenate_videos is then called exactly once with exactly the clips
\* output_1.mp4 .. output_N.mp4 in ascending order, the declared input count
\* n of the concat filter being the number of "-i" inputs.
C2_EverySegmentOnce ==
  /\ \A k \in 1..Len(PipelineCalls) :
       /\ PipelineCalls[k].video_out_path = OutputPath(k)
       /\ k <= total_segments
  /\ ~Completed => ConcatCalls = <<>>
  /\ Completed =>
       /\ Len(PipelineCalls) = total_segments
       /\ Len(ConcatCalls) = 1
       /\ calls[Len(calls)].op = "concat"
       /\ LET cmd == ConcatCalls[1].cmd
          IN  /\ InputsOf(cmd) = [k \in 1..total_segments |-> OutputPath(k)]
              /\ FilterOf(cmd).n = Len(InputsOf(cmd))
              /\ FilterOf(cmd).n = total_segments
              /\ FilterOf(cmd).pads = [k \in 1..total_segments |-> k - 1]
              /\ cmd[Len(cmd)] = args.video_out_path
       /\ args.video_out_path \in files

C2_Witness ==
  /\ Completed
  /\ total_segments = 3
  /\ Len(InputsOf(ConcatCalls[1].cmd)) = 3

\* ------------------------------------------------------------------ C3
\* C3: the steps occur in the order probe, segment, pipeline per segment,
\* concatenate: the probe precedes every cut, every cut (video and audio)
\* precedes the first pipeline invocation, and the single concatenation
\* happens only after the pipeline was invoked for the last segment.
C3_StepOrder ==
  \A k \in 1..Len(calls) :
    /\ calls[k].op \in Cuts =>
         /\ \E j \in 1..(k - 1) : calls[j].op = "probe"
         /\ \A j \in 1..(k - 1) : calls[j].op \notin {"pipeline", "concat"}
    /\ calls[k].op = "pipeline" =>
         /\ Len(SelectSeq(SubSeq(calls, 1, k - 1),
                          LAMBDA c : c.op = "cut_video")) = total_segments
         /\ Len(SelectSeq(SubSeq(calls, 1, k - 1),
                          LAMBDA c : c.op = "cut_audio")) = total_segments
         /\ \A j \in 1..(k - 1) : calls[j].op # "concat"
    /\ calls[k].op = "concat" =>
         /\ k = Len(calls)
         /\ \E j \in 1..(k - 1) :
              /\ calls[j].op = "pipeline"
              /\ calls[j].video_out_path = OutputPath(total_segments)
         /\ \A j \in 1..(k - 1) : calls[j].op # "concat"

C3_Witness ==
  /\ Completed
  /\ total_segments = 2
  /\ calls[Len(calls)].op = "concat"

\* ------------------------------------------------------------------ C7
\* C7 as stated: each segment is cut, then processed by the pipeline, and only
\* then does the next segment begin: segment i+1 is not cut before the
\* pipeline invocation for segment i has completed.
C7_AsStated ==
  \A k \in 1..Len(calls) :
    (calls[k].op \in Cuts /\ calls[k].output.part > 1) =>
      \E j \in 1..(k - 1) :
        /\ calls[j].op = "pipeline"
        /\ calls[j].video_out_path.part = calls[k].output.part - 1

PhaseOf(call) ==
  CASE call.op = "cut_video" -> 1
    [] call.op = "cut_audio" -> 2
    [] call.op = "pipeline" -> 3
    [] OTHER -> 0

SegmentOf(call) ==
  IF call.op = "pipeline" THEN call.video_out_path.part ELSE call.output.part

\* C7 amended: execution is strictly sequential, one step at a time, in
\* phases and not per segment: all video segments are cut in ascending order,
\* then all audio segments in ascending order, then the segments are
\* processed by the pipeline in ascending order, each only after the previous
\* invocation has completed; both clips of a segment are cut before the
\* pipeline is invoked for it.
C7_SequentialPhases ==
  /\ \A k, l \in 1..Len(calls) :
       (k < l /\ PhaseOf(calls[k]) > 0 /\ PhaseOf(calls[l]) > 0) =>
         \/ PhaseOf(calls[k]) < PhaseOf(calls[l])
         \/ /\ PhaseOf(calls[k]) = PhaseOf(calls[l])
            /\ SegmentOf(calls[k]) < SegmentOf(calls[l])
  /\ \A k \in 1..Len(VideoCuts) : SegmentOf(VideoCuts[k]) = k
  /\ \A k \in 1..Len(AudioCuts) : SegmentOf(AudioCuts[k]) = k
  /\ \A k \in 1..Len(PipelineCalls) :
       /\ SegmentOf(PipelineCalls[k]) = k
       /\ k <= Len(VideoCuts)
       /\ k <= Len(AudioCuts)

C7_Witness ==
  /\ Len(VideoCuts) = 3
  /\ Len(AudioCuts) = 3
  /\ Len(PipelineCalls) = 2

\* ------------------------------------------------------------------ C10
\* C10: video and audio clips stay paired by segment index: there are as many
\* audio clips as video clips (total_segments of each), the i-th audio clip is
\* cut with the start time and the length of the i-th video clip, and the i-th
\* pipeline invocation receives the i-th video clip assets/<i+1>.mp4 with the
\* i-th audio clip assets/<i+1>.mp3 and writes output_<i+1>.mp4, a path no
\* other segment writes.
C10_ClipsPaired ==
  /\ \A k \in 1..Len(AudioCuts) :
       /\ k <= Len(VideoCuts)
       /\ AudioCuts[k].ss = VideoCuts[k].ss
       /\ AudioCuts[k].t = VideoCuts[k].t
       /\ AudioCuts[k].output = SegmentAudioPath(k)
       /\ VideoCuts[k].output = SegmentVideoPath(k)
  /\ (Probed /\ pc \notin {"cut_video", "cut_audio"}) =>
       /\ Len(AudioCuts) = total_segments
       /\ Len(VideoCuts) = total_segments
       /\ Len(cut_audios) = Len(cut_videos)
  /\ \A k \in 1..Len(PipelineCalls) :
       /\ PipelineCalls[k].video_path = SegmentVideoPath(k)
       /\ PipelineCalls[k].video_path = VideoCuts[k].output
       /\ PipelineCalls[k].audio_path = SegmentAudioPath(k)
       /\ PipelineCalls[k].audio_path = AudioCuts[k].output
       /\ PipelineCalls[k].video_out_path = OutputPath(k)
       /\ \A l \in 1..Len(PipelineCalls) :
            l # k => PipelineCalls[l].video_out_path
                       # PipelineCalls[k].video_out_path

C10_Witness ==
  /\ Completed
  /\ total_segments = 3
  /\ video_duration % SegTicks # 0
  /\ Len(PipelineCalls) = 3
  /\ Len(AudioCuts) = 3

\* ------------------------------------------------------------------ C4
ConfigLoaded == \E k \in 1..Len(calls) : calls[k].op = "load_config" /\ calls[k].ok

C8_RaisesBeforeAnyCut ==
  error = "NotImplementedError" =>
    /\ \A k \in 1..Len(calls) : calls[k].op \notin Cuts
    /\ \A f \in files : f.stem # "assets/"

\* ------------------------------------------------------------------ C6
\* C6: main is entered only when all four required flags are supplied; with
\* any of them missing the run ends at argument parsing with no probe, cut,
\* pipeline call or output. The inference-step count, the guidance scale and
\* the seed take the defaults 20, 1.0 and 1247 when omitted.
C6_CommandLine ==
  /\ pc \notin {"parse_args", "load_config", "done"} =>
       RequiredFlags \subseteq argv.required
  /\ (calls # <<>> \/ files # {}) => RequiredFlags \subseteq argv.required
  /\ (pc # "parse_args" /\ ~(RequiredFlags \subseteq argv.required)) =>
       /\ pc = "done"
       /\ error = "SystemExit"
       /\ calls = <<>>
       /\ files = {}
  /\ (pc # "parse_args" /\ RequiredFlags \subseteq argv.required) =>
       /\ args.parsed
       /\ error # "SystemExit"
       /\ argv.steps = <<>> => args.inference_steps = 20
       /\ argv.scale = <<>> => args.guidance_scale = 1
       /\ argv.seed = <<>> => args.seed = 1247
       /\ argv.steps # <<>> => args.inference_steps = argv.steps[1]
       /\ argv.scale # <<>> => args.guidance_scale = argv.scale[1]
       /\ argv.seed # <<>> => args.seed = argv.seed[1]
  /\ \A k \in 1..Len(PipelineCalls) :
       /\ argv.steps = <<>> => PipelineCalls[k].num_inference_steps = 20
       /\ argv.scale = <<>> => PipelineCalls[k].guidance_scale = 1

C6_Witness ==
  /\ pc = "done"
  /\ error = "SystemExit"
  /\ argv.required = RequiredFlags \ {"--video_out_path"}
  /\ argv.seed = <<>>

\* ------------------------------------------------------------------ C5
\* C5: a failure of any external step (probe, a video or audio cut, model
\* loading, a pipeline invocation, the concatenation) propagates uncaught and
\* ends the run at that step: no later cut, pipeline invocation or
\* concatenation is executed, the failed step is not retried, and no segment
\* is skipped so that the run continues without it.
C5_FailureEndsRun ==
  /\ \A k \in 1..Len(calls) :
       ~calls[k].ok =>
         /\ k = Len(calls)
         /\ pc = "done"
         /\ error \in ExternalErrors
  /\ error \in ExternalErrors =>
       /\ calls # <<>>
       /\ ~calls[Len(calls)].ok
  /\ error # "none" => (pc = "done" /\ ~ENABLED NextFail)
  /\ \A k \in 1..Len(VideoCuts) : VideoCuts[k].output.part = k
  /\ \A k \in 1..Len(AudioCuts) : AudioCuts[k].output.part = k
  /\ \A k \in 1..Len(PipelineCalls) : PipelineCalls[k].video_out_path.part = k
  /\ ConcatCalls # <<>> =>
       /\ Len(PipelineCalls) = total_segments
       /\ \A k \in 1..Len(PipelineCalls) : PipelineCalls[k].ok
       /\ Len(InputsOf(ConcatCalls[1].cmd)) = total_segments

C5_Witness ==
  /\ pc = "done"
  /\ error = "RuntimeError"
  /\ total_segments = 3
  /\ Len(PipelineCalls) = 2
  /\ ~PipelineCalls[2].ok
  /\ PipelineCalls[1].ok
====
